---- MODULE Spec2Model ----
(***************************************************************************)
(* Model of the X-Ray SDK trace-capture and delivery engine:                *)
(*   xray/context.py  RunContext, StepContext, the two context variables    *)
(*   xray/models.py   RunModel.mark_complete, IngestPayload.validate_steps  *)
(*   xray/client.py   XRayClient.send, send_async, _handle_failure,         *)
(*                    _write_to_log, send_trace                             *)
(*   xray/config.py   XRayConfig (enabled, fallback_mode, async_mode)       *)
(*                                                                          *)
(* An execution flow is a thread or a task with its own context.  Each      *)
(* flow uses the scopes as `with` statements, so the scopes one flow has    *)
(* open form a stack, and an exception raised in a flow unwinds that stack  *)
(* one scope at a time until a handler catches it.  A flow reaches its run  *)
(* through get_current_run(), and every handle is used in one `with`.       *)
(*                                                                          *)
(* The fallback log directory is a set of files, each a name (timestamp in  *)
(* whole seconds, run id) with a content; the clock counts ticks, several   *)
(* to a second.                                                             *)
(***************************************************************************)
EXTENDS Integers, Sequences, FiniteSets, TLC

\* ------------------------------------------------------------------ bounds
MaxRuns  == 2
MaxSteps == 2
\* The clock runs from 0 to MaxTime, in ticks.
MaxTime  == 2
\* Candidate lists have up to MaxCandidates items; thresholds, sample sizes,
\* head and tail sizes and per-group caps go up to MaxSample.
MaxCandidates == 5
MaxSample     == 2
\* Urls have up to MaxUrlLen characters.
MaxUrlLen == 2

\* The execution flows (threads or tasks) of the application.
Flows == {"main", "helper"}

\* ----------------------------------------------------------- value spaces
\* Optional["RunContext"] / Optional["StepContext"]: 0 is None, else a handle.
NoScope == 0

RunStatus    == {"running", "success", "failure", "partial"}
FallbackMode == {"silent", "log", "raise"}

\* An exception object: its type name and str(exc_val).  NoExc is "no
\* exception" (exc_type is None).
NoExc == [type |-> "None", message |-> ""]
AppExceptions ==
    { [type |-> "ValueError", message |-> "Intentional test error"] }

\* What one transport attempt can end in (client.py 89-130): the two success
\* statuses, another 2xx status and an error status, the two httpx exceptions
\* caught by name, and an error raised by payload.model_dump before the
\* request is issued.
TransportOutcomes ==
    {"200", "201", "204", "500", "timeout", "connect", "dump_error"}

XRayConfig ==
    [enabled : BOOLEAN, fallback_mode : FallbackMode, async_mode : BOOLEAN]

VARIABLES
    config,      \* config._config: the process-wide XRayConfig
    runs,        \* sequence of RunContext objects (with their RunModel)
    steps,       \* sequence of StepContext objects (with their StepModel)
    cur_run,     \* _current_run_context, one slot per flow
    cur_step,    \* _current_step_context, one slot per flow
    stack,       \* per flow: the `with` scopes it has open, innermost last
    exc,         \* per flow: the exception propagating in it, or NoExc
    bg,          \* payloads handed to background threads, not yet sent
    files,       \* the fallback log directory: its files, by name
    last_send,   \* what the latest XRayClient.send call did
    now,         \* the clock datetime.utcnow() reads, in ticks
    returned,    \* what the latest direct send_trace call gave its caller
    call,        \* the latest call of a function of the SDK's library part
    step_model,  \* a StepModel used by itself: candidate counts and data
    environ,     \* os.environ: the value of XRAY_API_URL, None when unset
    api_url_default,  \* the default the XRayConfig class holds for api_url
    _config,     \* config.py's module-level singleton, None or an XRayConfig
    step_call    \* per flow: how far its call of run.step() has got

\* The variables of the tracing part (contexts, client, clock).
tracing_vars ==
    <<config, runs, steps, cur_run, cur_step, stack, exc, bg, files, last_send,
      now, returned>>

\* The variables of the configuration module.
config_vars == <<environ, api_url_default, _config>>

vars == <<tracing_vars, call, step_model, config_vars, step_call>>

\* ------------------------------------------------------------ small helpers
Last(s) == s[Len(s)]
Front(s) == SubSeq(s, 1, Len(s) - 1)

RECURSIVE IsSortedFrom(_, _)
IsSortedFrom(s, i) ==
    IF i >= Len(s) THEN TRUE
    ELSE s[i] <= s[i + 1] /\ IsSortedFrom(s, i + 1)

\* sequences == sorted(sequences)
IsSorted(s) == IsSortedFrom(s, 1)

\* [step.sequence for step in steps]
Sequences(stepIds) == [i \in 1..Len(stepIds) |-> steps[stepIds[i]].sequence]

\* Mutant of ValidateSteps: every step list is accepted.
ValidateStepsAcceptsAll(stepIds) == TRUE

\* models.py 367-379: IngestPayload.validate_steps accepts the step list
ValidateSteps(stepIds) ==
    IF stepIds # <<>> THEN IsSorted(Sequences(stepIds)) ELSE TRUE

ValidationError == [type |-> "ValidationError",
                    message |-> "Steps must be in sequential order by sequence number"]


\* ------------------------------------------------------- delivery client
TimeoutException == [type |-> "TimeoutException", message |-> "timed out"]
ConnectError     == [type |-> "ConnectError", message |-> "connection refused"]
DumpError        == [type |-> "TypeError", message |-> "not serializable"]
RuntimeError     == [type |-> "RuntimeError", message |-> "Failed to send trace to X-Ray API"]

\* The exception _write_to_log catches (client.py 220-222) when the
\* directory cannot be made or the file cannot be opened.
WriteError == [type |-> "OSError", message |-> "cannot write"]

\* --------------------------------------------------- payloads and log files
\* models.py 346-365: an IngestPayload, by what the delivery side reads of
\* it: the run (its id) and the steps (their sequence numbers, in list order).
Payload(r, stepSeqs) == [run |-> r, steps |-> stepSeqs]

\* models.py 269: the pipeline_name the run with id r was constructed with.
PipelineName(r) == "pipeline_" \o ToString(r)

\* The payload holds the RunModel object itself, not a copy (models.py 364:
\* a model instance given for a model field is kept as it is), so what a
\* dump shows of the run is what the object holds when the dump is made.
\* A bundle the application built by hand has a run of its own, with no
\* final_output.
FinalOutput(r) ==
    IF r \in 1..Len(runs) THEN runs[r].final_output ELSE "None"

\* Mutant of ModelDump: the steps are left out of the dump.
ModelDumpRunOnly(p) ==
    [run   |-> [id |-> p.run, pipeline_name |-> PipelineName(p.run),
                final_output |-> FinalOutput(p.run)],
     steps |-> <<>>]

\* client.py 91 and 215: payload.model_dump(mode="json"), the dict that is
\* posted and that json.dump writes.
ModelDump(p) ==
    [run   |-> [id |-> p.run, pipeline_name |-> PipelineName(p.run),
                final_output |-> FinalOutput(p.run)],
     steps |-> [i \in 1..Len(p.steps) |-> [sequence |-> p.steps[i]]]]

\* A file's content is the sequence of JSON documents in it: none right after
\* open(filepath, "w"), one after json.dump.
EmptyFile == <<>>
JsonFile(doc) == <<doc>>

\* json.load(f) of a file holding one document (test_client_manual.py 151)
JsonLoad(content) == content[1]

\* The clock ticks this many times in a second.
TicksPerSecond == 2

\* client.py 209: datetime.utcnow().strftime("%Y%m%d_%H%M%S") keeps the
\* whole seconds of the time and drops the fraction.
Strftime(t) == t \div TicksPerSecond

\* client.py 210-211: f"trace_{timestamp}_{payload.run.id}.json"
FileName(t, p) == [stamp |-> Strftime(t), run |-> p.run]

\* open(filepath, "w") followed by a write: the file of that name now has
\* this content, whatever it had before.
WriteFile(fs, name, content) ==
    {x \in fs : x.name # name} \cup {[name |-> name, content |-> content]}

\* client.py 205-214: the directory is made and the file opened (created or
\* truncated) when the file system allows it.
LogOpened(writable) == writable

\* client.py 215: json.dump of the dumped payload completes when the file is
\* open and the payload can be dumped.
LogWritten(outcome, writable) == LogOpened(writable) /\ outcome # "dump_error"

\* Mutant of WriteToLog: True is returned on every path.
WriteToLogAlwaysTrue(outcome, writable) == TRUE

\* client.py 193-222: _write_to_log returns True after the write (218) and
\* False from the except clause (220-222).
WriteToLog(outcome, writable) == LogWritten(outcome, writable)

\* Mutant of HandleFailure: LOG mode lets a failed write escape.
HandleFailureLogEscalates(mode, exception, outcome, writable) ==
    CASE mode = "silent" ->
           [ret |-> FALSE, raised |-> NoExc, wrote |-> FALSE, opened |-> FALSE]
      [] mode = "log" ->
           [ret    |-> LogWritten(outcome, writable),
            raised |-> IF LogWritten(outcome, writable) THEN NoExc ELSE WriteError,
            wrote  |-> LogWritten(outcome, writable),
            opened |-> LogOpened(writable)]
      [] mode = "raise" ->
           [ret    |-> FALSE,
            raised |-> IF exception # NoExc THEN exception ELSE RuntimeError,
            wrote  |-> FALSE, opened |-> FALSE]

\* Mutant of HandleFailure: RAISE mode always raises the synthesized error.
HandleFailureRaiseSynthesized(mode, exception, outcome, writable) ==
    CASE mode = "silent" ->
           [ret |-> FALSE, raised |-> NoExc, wrote |-> FALSE, opened |-> FALSE]
      [] mode = "log" ->
           [ret    |-> WriteToLog(outcome, writable),
            raised |-> NoExc,
            wrote  |-> LogWritten(outcome, writable),
            opened |-> LogOpened(writable)]
      [] mode = "raise" ->
           [ret |-> FALSE, raised |-> RuntimeError,
            wrote |-> FALSE, opened |-> FALSE]

\* client.py 156-191: _handle_failure(payload, exception)
HandleFailure(mode, exception, outcome, writable) ==
    CASE mode = "silent" ->
           [ret |-> FALSE, raised |-> NoExc, wrote |-> FALSE, opened |-> FALSE]
      [] mode = "log" ->
           [ret    |-> WriteToLog(outcome, writable),
            raised |-> NoExc,
            wrote  |-> LogWritten(outcome, writable),
            opened |-> LogOpened(writable)]
      [] mode = "raise" ->
           [ret    |-> FALSE,
            raised |-> IF exception # NoExc THEN exception ELSE RuntimeError,
            wrote  |-> FALSE, opened |-> FALSE]

\* The result of one XRayClient.send call:
\*   ret       the value returned (meaningful when raised = NoExc)
\*   raised    the exception the call raised, or NoExc
\*   attempts  number of httpx.post calls made
\*   handled   number of _handle_failure calls made
\*   wrote     the dumped payload was written to a fallback file
\*   opened    a fallback file was opened for writing
SendResult(ret, raised, attempts, handled, wrote, opened) ==
    [ret |-> ret, raised |-> raised, attempts |-> attempts,
     handled |-> handled, wrote |-> wrote, opened |-> opened]

\* Mutant of IsSuccessStatus: every 2xx status counts as success.
IsSuccessStatusAny2xx(outcome) == outcome \in {"200", "201", "204"}

\* client.py 109: response.status_code in (200, 201)
IsSuccessStatus(outcome) == outcome \in {"200", "201"}

\* Mutant of Attempts: a timeout or a connection failure is retried once.
AttemptsWithRetry(outcome) ==
    CASE outcome = "dump_error" -> 0
      [] outcome \in {"timeout", "connect"} -> 2
      [] OTHER -> 1

\* client.py 91-106: the httpx.post calls of one send: one, unless
\* model_dump raised before it.
Attempts(outcome) == IF outcome = "dump_error" THEN 0 ELSE 1

\* client.py 89-130: the part of XRayClient.send that runs when tracing is
\* enabled
SendEnabled(cfg, outcome, writable) ==
      CASE outcome = "dump_error" ->
             \* model_dump raised inside try: `except Exception`
             LET h == HandleFailure(cfg.fallback_mode, DumpError, outcome, writable)
             IN  SendResult(h.ret, h.raised, Attempts(outcome), 1, h.wrote, h.opened)
        [] IsSuccessStatus(outcome) ->
             SendResult(TRUE, NoExc, Attempts(outcome), 0, FALSE, FALSE)
        [] outcome = "timeout" ->
             LET h == HandleFailure(cfg.fallback_mode, TimeoutException, outcome, writable)
             IN  SendResult(h.ret, h.raised, Attempts(outcome), 1, h.wrote, h.opened)
        [] outcome = "connect" ->
             LET h == HandleFailure(cfg.fallback_mode, ConnectError, outcome, writable)
             IN  SendResult(h.ret, h.raised, Attempts(outcome), 1, h.wrote, h.opened)
        [] OTHER ->
             \* another status: _handle_failure(payload, None) is called inside
             \* the try block, so what it raises is caught by `except
             \* Exception` and handed to _handle_failure a second time
             LET h1 == HandleFailure(cfg.fallback_mode, NoExc, outcome, writable)
                 h2 == HandleFailure(cfg.fallback_mode, h1.raised, outcome, writable)
             IN  IF h1.raised = NoExc
                 THEN SendResult(h1.ret, NoExc, Attempts(outcome), 1, h1.wrote, h1.opened)
                 ELSE SendResult(h2.ret, h2.raised, Attempts(outcome), 2, h2.wrote, h2.opened)

\* Mutant of Send: the `enabled` check of client.py 85-87 is missing.
SendIgnoringEnabled(cfg, outcome, writable) == SendEnabled(cfg, outcome, writable)

\* client.py 68-130: XRayClient.send
Send(cfg, outcome, writable) ==
    IF ~cfg.enabled
    THEN SendResult(TRUE, NoExc, 0, 0, FALSE, FALSE)
    ELSE SendEnabled(cfg, outcome, writable)

\* What the log directory holds after a send that ran at time t.
LogDirAfter(fs, t, p, res) ==
    IF res.wrote THEN WriteFile(fs, FileName(t, p), JsonFile(ModelDump(p)))
    ELSE IF res.opened THEN WriteFile(fs, FileName(t, p), EmptyFile)
    ELSE fs

NoSend ==
    [by |-> "none", enabled |-> TRUE, mode |-> "silent", outcome |-> "none",
     ret |-> TRUE, raised |-> NoExc, attempts |-> 0, handled |-> 0, wrote |-> FALSE]

\* The record kept of a send call: who called (a flow's `with` exit, a direct
\* call, or a background thread), the configuration and transport outcome it
\* met, and what it did.
SendRecord(by, cfg, outcome, res) ==
    [by |-> by, enabled |-> cfg.enabled, mode |-> cfg.fallback_mode,
     outcome |-> outcome,
     ret |-> res.ret, raised |-> res.raised, attempts |-> res.attempts,
     handled |-> res.handled, wrote |-> res.wrote]

\* --------------------------------------------------------- context slots
\* Mutant of SetCurrent: one module-level variable instead of a ContextVar.
SetCurrentGlobal(slots, f, v) == [g \in DOMAIN slots |-> v]

\* context.py 29-34: a ContextVar holds one value per execution flow;
\* ContextVar.set changes the calling flow's value only.
SetCurrent(slots, f, v) == [slots EXCEPT ![f] = v]

\* context.py 42-65: get_current_run / get_current_step
get_current_run(f)  == cur_run[f]
get_current_step(f) == cur_step[f]

\* ------------------------------------------------------------ run objects
\* context.py 93-117 with models.py 266-289: a new RunContext and RunModel.
\* phase and entered_by are history: whether the scope was entered or exited,
\* and by which flow; handed is history too: what the run looked like each
\* time it was handed to send_trace.
RunContext_init(auto_send) ==
    [status |-> "running", end_time |-> "None", steps |-> <<>>,
     _sequence_counter |-> 0, _previous_run_context |-> NoScope,
     auto_send |-> auto_send, phase |-> "created", entered_by |-> "nobody",
     handed |-> <<>>, final_output |-> "None"]

\* models.py 328-339: RunModel.mark_complete
mark_complete(run, status) ==
    [run EXCEPT !.end_time = "utcnow", !.status = status]

\* Mutant of ExitStatus: the exception is not looked at.
ExitStatusAlwaysSuccess(e) == "success"

\* context.py 158-164: the status __exit__ chooses
ExitStatus(e) == IF e = NoExc THEN "success" ELSE "failure"

\* context.py 284-306 with models.py 97-132: a new StepContext and StepModel
StepContext_init(r, sequence) ==
    [run_context |-> r, sequence |-> sequence, run_id |-> NoScope,
     start_time |-> "None", end_time |-> "None", exception |-> NoExc,
     _previous_step_context |-> NoScope, phase |-> "created",
     entered_by |-> "nobody"]

\* Mutant of FinishStep: the exception is not noted in the metadata.
FinishStepNoException(step, e) == [step EXCEPT !.end_time = "utcnow"]

\* context.py 331-339: end time and exception metadata at step exit
FinishStep(step, e) ==
    [step EXCEPT !.end_time = "utcnow",
                 !.exception = IF e # NoExc
                               THEN [type |-> e.type, message |-> e.message]
                               ELSE @]

\* context.py 220-234: RunContext.add_step appends to the run's list
add_step(run, s) == [run EXCEPT !.steps = Append(@, s)]


\* -------------------------------------------------------------- the state
\* ------------------------------------------------------- library values
\* Optional[...] values: None, or a value that is set.
None == <<>>
Some(v) == <<v>>

Min(a, b) == IF a <= b THEN a ELSE b
Max(a, b) == IF a >= b THEN a ELSE b

\* No library function has been called yet.
NoCall == [fn |-> "none"]

\* A candidate is a dict with an "id" and possibly a "category"; NoKey is
\* what candidate.get("category") gives when the key is absent.
NoKey == "None"
Categories == {"a", "b"}
Candidate(id, category) == [id |-> id, category |-> category]

\* StepModel(step_name=..., step_type=..., sequence=...): the fields the
\* candidate tracking uses; metadata holds the three sampling keys, None
\* when the key is absent.  -- models.py 96-131
NoMetadata ==
    [sampling_applied |-> None, original_data_count |-> None,
     sampled_data_count |-> None]

StepModel_init(step_name, sequence) ==
    [step_name |-> step_name, sequence |-> sequence,
     candidates_in |-> None, candidates_out |-> None,
     candidates_data |-> None, metadata |-> NoMetadata]

\* A url is a sequence of characters; "h" stands for any character but "/".
\* config.py 68: the default when XRAY_API_URL is unset.
DefaultUrl == <<"h">>

\* os.getenv(name, default) on the modelled variable
Getenv(env, default) == IF env = None THEN default ELSE env[1]

\* _config = None
NoConfig == [exists |-> FALSE, api_url |-> <<>>]

TypeOK ==
    /\ config \in XRayConfig
    /\ Len(runs) <= MaxRuns
    /\ Len(steps) <= MaxSteps
    /\ cur_run \in [Flows -> 0..MaxRuns]
    /\ cur_step \in [Flows -> 0..MaxSteps]
    /\ \A f \in Flows : Len(stack[f]) <= MaxRuns + MaxSteps
    /\ \A p \in bg : p.run \in 1..MaxRuns /\ Len(p.steps) <= 2 * MaxSteps
    /\ \A x \in files :
          /\ x.name.run \in 1..MaxRuns
          /\ x.name.stamp \in 0..Strftime(MaxTime)
          /\ Len(x.content) <= 1
    /\ now \in 0..MaxTime
    /\ returned \in {"none", "True", "False", "raised"}
    /\ call.fn \in {"none", "sample_candidates", "sample_candidates_head_tail",
                    "sample_candidates_stratified", "StepModel", "RunModel",
                    "set_candidates", "reduction_rate", "get_config",
                    "configure",
                    "reset_config", "environ"}
    /\ step_model.sequence \in Int
    /\ Len(environ) <= 1
    /\ _config.exists \in BOOLEAN
    /\ \A f \in Flows : step_call[f].at \in {"idle", "built", "loaded"}

\* No flow is inside run.step().
Idle == [at |-> "idle", run |-> NoScope, loaded |-> 0]

\* The state of the tracing part after import, before any call.
InitTracing ==
    /\ runs = <<>>
    /\ steps = <<>>
    /\ cur_run = [f \in Flows |-> NoScope]
    /\ cur_step = [f \in Flows |-> NoScope]
    /\ stack = [f \in Flows |-> <<>>]
    /\ exc = [f \in Flows |-> NoExc]
    /\ bg = {}
    /\ files = {}
    /\ last_send = NoSend
    /\ now = 0
    /\ returned = "none"
    /\ step_call = [f \in Flows |-> Idle]

\* The library part: nothing called, one step model built by hand.
InitLibrary ==
    /\ call = NoCall
    /\ step_model = StepModel_init("step", 0)

\* The configuration module imported with XRAY_API_URL unset.
InitConfigModule ==
    /\ environ = None
    /\ api_url_default = Getenv(None, DefaultUrl)
    /\ _config = NoConfig

Init ==
    /\ config \in XRayConfig
    /\ InitTracing
    /\ InitLibrary
    /\ InitConfigModule

\* A flow runs application code (and so can call into the SDK) only while no
\* exception is propagating in it.
Running(f) == exc[f] = NoExc

TopIs(f, kind) == stack[f] # <<>> /\ Last(stack[f]).kind = kind

\* An entry of a flow's scope stack: the handle, and the value the flow's
\* context slot had just before the scope was entered (history).
Scope(kind, id, saved) == [kind |-> kind, id |-> id, saved |-> saved]

\* `with RunContext(..., auto_send=auto_send) as run:` -- context.py 93-136
EnterRun(f, auto_send) ==
    /\ Running(f)
    /\ Len(runs) < MaxRuns
    /\ LET r == Len(runs) + 1
           new == [RunContext_init(auto_send) EXCEPT
                      !._previous_run_context = get_current_run(f),
                      !.phase = "entered",
                      !.entered_by = f]
       IN  /\ runs' = Append(runs, new)
           /\ cur_run' = SetCurrent(cur_run, f, r)
           /\ stack' = [stack EXCEPT ![f] = Append(@, Scope("run", r, cur_run[f]))]
    /\ UNCHANGED <<config, steps, cur_step, exc, bg, files, last_send, now,
                   returned, call, step_model, config_vars, step_call>>

\* run = get_current_run(); run.step(name, type) -- context.py 186-218.
\* The handle is kept but not (yet) used in a `with` statement.
CreateStep(f) ==
    /\ Running(f)
    /\ get_current_run(f) # NoScope
    /\ Len(steps) < MaxSteps
    /\ LET r == get_current_run(f)
       IN  /\ steps' = Append(steps, StepContext_init(r, runs[r]._sequence_counter))
           /\ runs' = [runs EXCEPT ![r]._sequence_counter = @ + 1]
    /\ UNCHANGED <<config, cur_run, cur_step, stack, exc, bg, files,
                   last_send, now, returned, call, step_model, config_vars, step_call>>

\* StepContext.__enter__ -- context.py 308-323
enter_step(step, f) ==
    [step EXCEPT !.start_time = "utcnow",
                 !._previous_step_context = get_current_step(f),
                 !.phase = "entered",
                 !.entered_by = f]

\* `with get_current_run().step(name, type) as step:` -- context.py 186-218
\* and 308-323
WithStep(f) ==
    /\ Running(f)
    /\ get_current_run(f) # NoScope
    /\ Len(steps) < MaxSteps
    /\ LET r == get_current_run(f)
           s == Len(steps) + 1
       IN  /\ steps' = Append(steps,
                 enter_step(StepContext_init(r, runs[r]._sequence_counter), f))
           /\ runs' = [runs EXCEPT ![r]._sequence_counter = @ + 1]
           /\ cur_step' = SetCurrent(cur_step, f, s)
           /\ stack' = [stack EXCEPT ![f] = Append(@, Scope("step", s, cur_step[f]))]
    /\ UNCHANGED <<config, cur_run, exc, bg, files, last_send, now, returned,
                   call, step_model, config_vars, step_call>>

\* StepContext.__exit__ -- context.py 325-348.  It returns False: the
\* exception, if any, keeps propagating.
ExitStep(f) ==
    /\ TopIs(f, "step")
    /\ LET s == Last(stack[f]).id
           r == steps[s].run_context
       IN  /\ steps' = [steps EXCEPT ![s] =
                          [FinishStep(@, exc[f]) EXCEPT !.run_id = r,
                                                        !.phase = "exited"]]
           /\ runs' = [runs EXCEPT ![r] = add_step(@, s)]
           /\ cur_step' = SetCurrent(cur_step, f, steps[s]._previous_step_context)
    /\ stack' = [stack EXCEPT ![f] = Front(@)]
    /\ UNCHANGED <<config, cur_run, exc, bg, files, last_send, now, returned,
                   call, step_model, config_vars, step_call>>

\* The body of a scope raises e.
Raise(f, e) ==
    /\ Running(f)
    /\ stack[f] # <<>>
    /\ exc' = [exc EXCEPT ![f] = e]
    /\ UNCHANGED <<config, runs, steps, cur_run, cur_step, stack, bg, files,
                   last_send, now, returned, call, step_model, config_vars, step_call>>

\* An `except` clause of the application, around the innermost open scope
\* or at the top of the flow, catches the propagating exception.
Catch(f) ==
    /\ ~Running(f)
    /\ exc' = [exc EXCEPT ![f] = NoExc]
    /\ UNCHANGED <<config, runs, steps, cur_run, cur_step, stack, bg, files,
                   last_send, now, returned, call, step_model, config_vars, step_call>>

\* get_current_run().run_model.mark_complete(status), called by application
\* code -- models.py 328-339
\* The status an explicit completion call passes; SUCCESS and FAILURE are
\* what scope exit sets by itself.
ExplicitStatuses == {"partial"}

MarkComplete(f, status) ==
    /\ Running(f)
    /\ get_current_run(f) # NoScope
    /\ runs' = [runs EXCEPT ![get_current_run(f)] = mark_complete(@, status)]
    /\ UNCHANGED <<config, steps, cur_run, cur_step, stack, exc, bg, files,
                   last_send, now, returned, call, step_model, config_vars, step_call>>

\* Mutant of SendTrace: the calling flow always runs the send itself.
SendTraceAlwaysBlocking(p, by, outcome, writable) ==
    LET res == Send(config, outcome, writable)
    IN  [ret |-> res.ret, raised |-> res.raised,
         bg |-> bg,
         files |-> LogDirAfter(files, now, p, res),
         last_send |-> SendRecord(by, config, outcome, res)]

\* client.py 230-258 with 132-154: what send_trace does with payload p.  In
\* async mode the payload goes to a background thread and the call returns
\* True; otherwise the calling flow runs XRayClient.send itself.  The result
\* is what the caller sees and the state of the delivery side.
SendTrace(p, by, outcome, writable) ==
    IF config.async_mode
    THEN [ret |-> TRUE, raised |-> NoExc,
          bg |-> bg \cup {p}, files |-> files, last_send |-> last_send]
    ELSE LET res == Send(config, outcome, writable)
         IN  [ret |-> res.ret, raised |-> res.raised,
              bg |-> bg,
              files |-> LogDirAfter(files, now, p, res),
              last_send |-> SendRecord(by, config, outcome, res)]

\* context.py 169-178: the auto_send part of RunContext.__exit__ for the
\* completed run record: building the IngestPayload runs validate_steps,
\* which raises for a step list that is not in sequence order.
AutoSend(r, run, outcome, writable) ==
    IF ~run.auto_send
    THEN [raised |-> NoExc, bg |-> bg, files |-> files, last_send |-> last_send,
          handed |-> FALSE]
    ELSE IF ~ValidateSteps(run.steps)
    THEN [raised |-> ValidationError,
          bg |-> bg, files |-> files, last_send |-> last_send,
          handed |-> FALSE]
    ELSE LET sent == SendTrace(Payload(r, Sequences(run.steps)), "exit",
                               outcome, writable)
         IN  [raised |-> sent.raised,
              bg |-> sent.bg, files |-> sent.files, last_send |-> sent.last_send,
              handed |-> TRUE]

\* context.py 175: the payload refers to the run model and holds the step
\* list as they are when send_trace is called.
Handed(run) ==
    [status |-> run.status, end_time |-> run.end_time, steps |-> run.steps,
     final_output |-> run.final_output]

\* context.py 180-181: the run slot after __exit__, given what the delivery
\* part raised: the statement is reached only if nothing was raised before it.
RestoreRun(f, r, raised) ==
    IF raised = NoExc
    THEN SetCurrent(cur_run, f, runs[r]._previous_run_context)
    ELSE cur_run

\* The exception propagating in the flow after RunContext.__exit__: __exit__
\* returns False, so the incoming one continues, unless __exit__ itself
\* raised, and then that exception propagates in its place.
AfterExit(incoming, raised) == IF raised # NoExc THEN raised ELSE incoming

\* RunContext.__exit__ -- context.py 138-184.  outcome and writable are what
\* the transport and the file system answer if the exit sends by itself.
ExitRun(f, outcome, writable) ==
    /\ TopIs(f, "run")
    /\ LET r == Last(stack[f]).id
           done == mark_complete(runs[r], ExitStatus(exc[f]))
           sent == AutoSend(r, done, outcome, writable)
       IN  /\ runs' = [runs EXCEPT ![r] =
                         [done EXCEPT !.phase = "exited",
                                      !.handed = IF sent.handed
                                                 THEN Append(@, Handed(done))
                                                 ELSE @]]
           /\ bg' = sent.bg
           /\ files' = sent.files
           /\ last_send' = sent.last_send
           /\ cur_run' = RestoreRun(f, r, sent.raised)
           /\ exc' = [exc EXCEPT ![f] = AfterExit(@, sent.raised)]
    /\ stack' = [stack EXCEPT ![f] = Front(@)]
    /\ UNCHANGED <<config, steps, cur_step, now, returned, call, step_model,
                   config_vars, step_call>>

\* The bundles application code builds by itself for run id r: no steps, or
\* MaxSteps steps numbered 0, 1, ... (test_client_manual.py 131-139).
ClientPayloads ==
    {Payload(r, [i \in 1..n |-> i - 1]) : r \in 1..MaxRuns, n \in {0, MaxSteps}}

\* XRayClient().send(payload) called directly by application code --
\* client.py 68-130
SendCall(p, outcome, writable) ==
    /\ LET res == Send(config, outcome, writable)
       IN  /\ last_send' = SendRecord("call", config, outcome, res)
           /\ files' = LogDirAfter(files, now, p, res)
    /\ UNCHANGED <<config, runs, steps, cur_run, cur_step, stack, exc, bg,
                   now, returned, call, step_model, config_vars, step_call>>

\* XRayClient().send_async(payload) called directly -- client.py 132-154.
\* One bundle of a run is in flight at a time.
SendAsyncCall(p) ==
    /\ \A q \in bg : q.run # p.run
    /\ bg' = bg \cup {p}
    /\ UNCHANGED <<config, runs, steps, cur_run, cur_step, stack, exc, files,
                   last_send, now, returned, call, step_model, config_vars, step_call>>

\* The values `returned` takes: nothing yet, True, False, or an exception.
Returned(sent) ==
    IF sent.raised # NoExc THEN "raised"
    ELSE IF sent.ret THEN "True" ELSE "False"

\* send_trace(payload) called directly by application code -- client.py
\* 230-258
SendTraceCall(p, outcome, writable) ==
    /\ config.async_mode => \A q \in bg : q.run # p.run
    /\ LET sent == SendTrace(p, "send_trace", outcome, writable)
       IN  /\ bg' = sent.bg
           /\ files' = sent.files
           /\ last_send' = sent.last_send
           /\ returned' = Returned(sent)
    /\ UNCHANGED <<config, runs, steps, cur_run, cur_step, stack, exc, now,
                   call, step_model, config_vars, step_call>>

\* Mutant of BgSend: the thread runs the send but its bundle stays queued.
BgSendKeepsBundle(p, outcome, writable) ==
    /\ p \in bg
    /\ LET res == Send(config, outcome, writable)
       IN  /\ last_send' = SendRecord("thread", config, outcome, res)
           /\ files' = LogDirAfter(files, now, p, res)
    /\ UNCHANGED <<config, runs, steps, cur_run, cur_step, stack, exc, bg,
                   now, returned, call, step_model, config_vars, step_call>>

\* The background thread started by send_async runs XRayClient.send --
\* client.py 151.  What send returns or raises there reaches no flow.
BgSend(p, outcome, writable) ==
    /\ p \in bg
    /\ LET res == Send(config, outcome, writable)
       IN  /\ last_send' = SendRecord("thread", config, outcome, res)
           /\ files' = LogDirAfter(files, now, p, res)
    /\ bg' = bg \ {p}
    /\ UNCHANGED <<config, runs, steps, cur_run, cur_step, stack, exc, now,
                   returned, call, step_model, config_vars, step_call>>

\* Time passes.
Tick ==
    /\ now < MaxTime
    /\ now' = now + 1
    /\ UNCHANGED <<config, runs, steps, cur_run, cur_step, stack, exc, bg,
                   files, last_send, returned, call, step_model,
                   config_vars, step_call>>

\* ------------------------------------------------------- specifications
\* What one flow can do.
FlowStep(f) ==
    \/ \E a \in BOOLEAN : EnterRun(f, a)
    \/ CreateStep(f)
    \/ WithStep(f)
    \/ ExitStep(f)
    \/ \E e \in AppExceptions : Raise(f, e)
    \/ Catch(f)
    \/ \E st \in ExplicitStatuses : MarkComplete(f, st)
    \/ \E o \in TransportOutcomes, w \in BOOLEAN : ExitRun(f, o, w)

\* Spec: one flow using run and step scopes, under every configuration and
\* every delivery outcome at run exit.
Next == FlowStep("main")

Spec == Init /\ [][Next]_vars

\* config.py 66-99: the configuration get_config creates when nothing is set
\* in the environment.
DefaultConfig ==
    [enabled |-> TRUE, fallback_mode |-> "silent", async_mode |-> TRUE]

\* SpecFlows: all flows running concurrently, each with its own scopes, under
\* the default configuration.
InitFlows == Init /\ config = DefaultConfig

NextFlows == \E f \in Flows : FlowStep(f)

SpecFlows == InitFlows /\ [][NextFlows]_vars

\* SpecClient: the delivery client used directly, under every configuration:
\* blocking sends, background sends and the threads that carry them out.
NextClient ==
    \/ \E p \in ClientPayloads, o \in TransportOutcomes, w \in BOOLEAN :
          SendCall(p, o, w)
    \/ \E p \in ClientPayloads : SendAsyncCall(p)
    \/ \E p \in ClientPayloads, o \in TransportOutcomes, w \in BOOLEAN :
          SendTraceCall(p, o, w)
    \/ \E p \in bg, o \in TransportOutcomes, w \in BOOLEAN : BgSend(p, o, w)

SpecClient == Init /\ [][NextClient]_vars

\* SpecClientFair: the delivery client with tracing enabled and async_mode
\* on (config.py 96-99, the default), under every fallback mode, where every
\* background thread that was started gets to run: the process stays alive
\* and the scheduler is fair to threads.
InitAsync == Init /\ config.enabled /\ config.async_mode

SpecClientFair ==
    /\ InitAsync
    /\ [][NextClient]_vars
    /\ \A p \in ClientPayloads :
          WF_vars(\E o \in TransportOutcomes, w \in BOOLEAN : BgSend(p, o, w))

\* test_client_manual.py 110-118: tracing enabled, LOG fallback, blocking
\* sends.
LogConfig == [enabled |-> TRUE, fallback_mode |-> "log", async_mode |-> FALSE]

\* SpecLog: blocking sends under the LOG fallback while time passes.
InitLog == Init /\ config = LogConfig

NextLog ==
    \/ Tick
    \/ \E p \in ClientPayloads, o \in TransportOutcomes, w \in BOOLEAN :
          SendCall(p, o, w)

SpecLog == InitLog /\ [][NextLog]_vars


\* The number of step scopes flow f has open.
StepScopes(f) ==
    Cardinality({i \in 1..Len(stack[f]) : stack[f][i].kind = "step"})

\* `with step:` on a step handle the application kept: one made by run.step()
\* and not used yet, or one whose scope was entered before.  __enter__ looks
\* at nothing.  -- context.py 308-323
EnterStepHandle(f, s) ==
    /\ Running(f)
    /\ s \in 1..Len(steps)
    /\ StepScopes(f) < Len(steps)
    /\ Len(runs[steps[s].run_context].steps) + StepScopes(f) < MaxSteps
    /\ steps' = [steps EXCEPT ![s] = enter_step(@, f)]
    /\ cur_step' = SetCurrent(cur_step, f, s)
    /\ stack' = [stack EXCEPT ![f] = Append(@, Scope("step", s, cur_step[f]))]
    /\ UNCHANGED <<config, runs, cur_run, exc, bg, files, last_send, now,
                   returned, call, step_model, config_vars, step_call>>

\* SpecHandles: one flow that also uses the step handles it kept, under the
\* default configuration.
InitHandles == Init /\ config = DefaultConfig

NextHandles ==
    \/ FlowStep("main")
    \/ \E s \in 1..MaxSteps : EnterStepHandle("main", s)

SpecHandles == InitHandles /\ [][NextHandles]_vars


\* run.step(name) called by a thread that was given the run handle, by the
\* steps other threads can come between.  First the StepContext is built
\* with sequence=self._sequence_counter.  -- context.py 207-213
StepBuild(f, r) ==
    /\ Running(f)
    /\ step_call[f] = Idle
    /\ r \in 1..Len(runs) /\ runs[r].phase = "entered"
    /\ Len(steps) < MaxSteps
    /\ steps' = Append(steps, StepContext_init(r, runs[r]._sequence_counter))
    /\ step_call' = [step_call EXCEPT ![f] = [at |-> "built", run |-> r,
                                              loaded |-> 0]]
    /\ UNCHANGED <<config, runs, cur_run, cur_step, stack, exc, bg, files,
                   last_send, now, returned, call, step_model, config_vars>>

\* `self._sequence_counter += 1` reads the attribute ...  -- context.py 216
CounterLoad(f) ==
    /\ step_call[f].at = "built"
    /\ step_call' = [step_call EXCEPT
                        ![f].at = "loaded",
                        ![f].loaded = runs[step_call[f].run]._sequence_counter]
    /\ UNCHANGED <<tracing_vars, call, step_model, config_vars>>

\* ... and then stores the sum.  -- context.py 216-218
CounterStore(f) ==
    /\ step_call[f].at = "loaded"
    /\ runs' = [runs EXCEPT ![step_call[f].run]._sequence_counter =
                                step_call[f].loaded + 1]
    /\ step_call' = [step_call EXCEPT ![f] = Idle]
    /\ UNCHANGED <<config, steps, cur_run, cur_step, stack, exc, bg, files,
                   last_send, now, returned, call, step_model, config_vars>>

\* SpecThreads: the flows are threads that share the handles of the runs the
\* main thread entered, under every configuration.
NextThreads ==
    \/ \E a \in BOOLEAN : EnterRun("main", a)
    \/ \E f \in Flows, r \in 1..MaxRuns : StepBuild(f, r)
    \/ \E f \in Flows : CounterLoad(f)
    \/ \E f \in Flows : CounterStore(f)

SpecThreads == Init /\ [][NextThreads]_vars


\* run.set_final_output(output) on a run handle the application holds,
\* inside the run's scope or after it.  -- context.py 246-256
SetFinalOutput(f, r) ==
    /\ Running(f)
    /\ r \in 1..Len(runs)
    /\ runs[r].final_output = "None"
    /\ runs' = [runs EXCEPT ![r].final_output = "set"]
    /\ UNCHANGED <<config, steps, cur_run, cur_step, stack, exc, bg, files,
                   last_send, now, returned, call, step_model, config_vars,
                   step_call>>

\* Tracing enabled, LOG fallback, background sends.
AsyncLogConfig ==
    [enabled |-> TRUE, fallback_mode |-> "log", async_mode |-> TRUE]

\* SpecAsyncExit: one flow whose runs are sent by background threads at
\* scope exit, while the flow goes on using the run handles.
InitAsyncExit == Init /\ config = AsyncLogConfig

NextAsyncExit ==
    \/ \E a \in BOOLEAN : EnterRun("main", a)
    \/ WithStep("main")
    \/ ExitStep("main")
    \/ \E o \in TransportOutcomes, w \in BOOLEAN : ExitRun("main", o, w)
    \/ \E r \in 1..MaxRuns : SetFinalOutput("main", r)
    \/ \E p \in bg, o \in TransportOutcomes, w \in BOOLEAN : BgSend(p, o, w)

SpecAsyncExit == InitAsyncExit /\ [][NextAsyncExit]_vars


\* ------------------------------------------------------------- sampling
\* The candidate lists the samplers are given; a candidate's id is its
\* position in the list.
CandidateLists ==
    UNION {{[i \in 1..n |-> Candidate(i, cat[i])] :
                cat \in [1..n -> Categories \cup {NoKey}]} :
           n \in 0..MaxCandidates}

\* Thresholds, sample sizes, head and tail sizes, per-group caps.
SampleSizes == 0..MaxSample

\* An index of a Python slice, clamped as list slicing clamps it: a negative
\* index counts from the end, and -0 is 0.
SliceIndex(i, n) == IF i < 0 THEN Max(i + n, 0) ELSE Min(i, n)

\* s[start:stop]
Slice(s, start, stop) ==
    SubSeq(s, SliceIndex(start, Len(s)) + 1, SliceIndex(stop, Len(s)))

\* random.sample(population, k): every list of k items at distinct positions
\* of the population is a possible result.
RandomSample(population, k) ==
    {[i \in 1..k |-> population[q[i]]] :
        q \in {q \in [1..k -> 1..Len(population)] :
                  \A i, j \in 1..k : q[i] = q[j] => i = j}}

\* sample_candidates(candidates, max_full_capture, sample_size): the set of
\* lists the call can return.  -- sampling.py 62-93
sample_candidates(candidates, max_full_capture, sample_size) ==
    LET total   == Len(candidates)
        first_n == Min(sample_size, total)
        last_n  == Min(sample_size, total)
        first   == Slice(candidates, 0, first_n)
        last    == IF total > sample_size
                   THEN Slice(candidates, -last_n, total)
                   ELSE <<>>
        middle  == Slice(candidates, sample_size, -sample_size)
        randoms == IF total > sample_size * 2
                   THEN IF Len(middle) > sample_size
                        THEN RandomSample(middle,
                                          Min(sample_size, Len(middle)))
                        ELSE {middle}
                   ELSE {<<>>}
    IN  IF total <= max_full_capture
        THEN {candidates}
        ELSE {first \o last \o random_sample : random_sample \in randoms}

\* sample_candidates_head_tail(candidates, head_size, tail_size)
\* -- sampling.py 120-128
sample_candidates_head_tail(candidates, head_size, tail_size) ==
    LET total == Len(candidates)
        head  == Slice(candidates, 0, head_size)
        tail  == Slice(candidates, -tail_size, total)
    IN  IF total <= head_size + tail_size
        THEN candidates
        ELSE head \o tail

\* The values() of the strata dict, in insertion order: one list per distinct
\* key, candidates without the key left out.  -- sampling.py 189-195
RECURSIVE Strata(_, _)
Strata(candidates, strata_key) ==
    IF candidates = <<>> THEN <<>>
    ELSE LET strata    == Strata(Front(candidates), strata_key)
             candidate == Last(candidates)
             key       == candidate[strata_key]
             at        == {i \in 1..Len(strata) :
                              strata[i][1][strata_key] = key}
         IN  IF key = NoKey THEN strata
             ELSE IF at = {} THEN Append(strata, <<candidate>>)
             ELSE [strata EXCEPT ![CHOOSE i \in at : TRUE] =
                                      Append(@, candidate)]

\* mutant of StratumSample: the cap is ignored
StratumSampleWhole(stratum_candidates, samples_per_stratum) ==
    {stratum_candidates}

\* What one stratum contributes.  -- sampling.py 200-203
StratumSample(stratum_candidates, samples_per_stratum) ==
    IF Len(stratum_candidates) <= samples_per_stratum
    THEN {stratum_candidates}
    ELSE RandomSample(stratum_candidates, samples_per_stratum)

\* The loop over strata.values().  -- sampling.py 198-205
RECURSIVE SampleStrata(_, _)
SampleStrata(strata, samples_per_stratum) ==
    IF strata = <<>> THEN {<<>>}
    ELSE {sampled \o stratum :
             sampled \in SampleStrata(Front(strata), samples_per_stratum),
             stratum \in StratumSample(Last(strata), samples_per_stratum)}

\* sample_candidates_stratified(candidates, strata_key, samples_per_stratum):
\* the set of lists the call can return.  -- sampling.py 188-205
sample_candidates_stratified(candidates, strata_key, samples_per_stratum) ==
    SampleStrata(Strata(candidates, strata_key), samples_per_stratum)

\* should_sample(candidates, max_full_capture)  -- sampling.py 264-267
should_sample(candidates, max_full_capture) ==
    Len(candidates) > max_full_capture

\* auto_sample_candidates(candidates) with the default strategy "smart"
\* -- sampling.py 308-309
auto_sample_candidates(candidates, max_full_capture, sample_size) ==
    sample_candidates(candidates, max_full_capture, sample_size)

\* A call of sample_candidates from application code.
SampleCandidatesCall(candidates, max_full_capture, sample_size) ==
    /\ call = NoCall
    /\ \E sampled \in
            sample_candidates(candidates, max_full_capture, sample_size) :
          call' = [fn |-> "sample_candidates", candidates |-> candidates,
                   max_full_capture |-> max_full_capture,
                   sample_size |-> sample_size, result |-> sampled]
    /\ UNCHANGED <<tracing_vars, step_model, config_vars, step_call>>

\* A call of sample_candidates_head_tail from application code.
HeadTailCall(candidates, head_size, tail_size) ==
    /\ call = NoCall
    /\ call' = [fn |-> "sample_candidates_head_tail",
                candidates |-> candidates,
                head_size |-> head_size, tail_size |-> tail_size,
                result |-> sample_candidates_head_tail(candidates, head_size,
                                                       tail_size)]
    /\ UNCHANGED <<tracing_vars, step_model, config_vars, step_call>>

\* A call of sample_candidates_stratified from application code.
StratifiedCall(candidates, samples_per_stratum) ==
    /\ call = NoCall
    /\ \E sampled \in sample_candidates_stratified(candidates, "category",
                                                   samples_per_stratum) :
          call' = [fn |-> "sample_candidates_stratified",
                   candidates |-> candidates, strata_key |-> "category",
                   samples_per_stratum |-> samples_per_stratum,
                   result |-> sampled]
    /\ UNCHANGED <<tracing_vars, step_model, config_vars, step_call>>

\* SpecSampling: one call of a sampler, over all bounded arguments.
NextSampling ==
    \/ \E c \in CandidateLists, t \in SampleSizes, s \in SampleSizes :
          SampleCandidatesCall(c, t, s)
    \/ \E c \in CandidateLists, h \in SampleSizes, t \in SampleSizes :
          HeadTailCall(c, h, t)
    \/ \E c \in CandidateLists, k \in SampleSizes : StratifiedCall(c, k)

InitSampling == Init /\ config = DefaultConfig

SpecSampling == InitSampling /\ [][NextSampling]_vars


\* ----------------------------------------------------------- step model
\* Candidate counts a step is given.
CountValues == {0, 1, MaxCandidates}

\* The data lists set_candidates is given: None, or a list of candidates.
DataLists ==
    {None} \cup
    {Some([i \in 1..n |-> Candidate(i, "a")]) : n \in 0..MaxCandidates}

\* `if data`: a list that is neither None nor empty
Truthy(data) == data # None /\ data[1] # <<>>

\* mutant of set_candidates: the sampled data is stored, the metadata is not
set_candidatesNoMetadata(step, candidates_in, candidates_out, data, auto_sample, max_full_capture, sample_size) ==
    LET counted == [step EXCEPT !.candidates_in = Some(candidates_in),
                                !.candidates_out = Some(candidates_out)]
    IN  IF Truthy(data) /\ auto_sample
           /\ should_sample(data[1], max_full_capture)
        THEN {[counted EXCEPT !.candidates_data = Some(sampled)] :
                 sampled \in auto_sample_candidates(data[1], max_full_capture,
                                                    sample_size)}
        ELSE {[counted EXCEPT !.candidates_data = data]}

\* step.set_candidates(candidates_in, candidates_out, data, auto_sample): the
\* set of values the step can have afterwards. max_full_capture is
\* get_config().max_candidates_full_capture, sample_size the default of
\* sample_candidates.  -- models.py 218-240
set_candidates(step, candidates_in, candidates_out, data, auto_sample, max_full_capture, sample_size) ==
    LET counted == [step EXCEPT !.candidates_in = Some(candidates_in),
                                !.candidates_out = Some(candidates_out)]
    IN  IF Truthy(data) /\ auto_sample
        THEN IF should_sample(data[1], max_full_capture)
             THEN {[counted EXCEPT
                       !.candidates_data = Some(sampled),
                       !.metadata.sampling_applied = Some(TRUE),
                       !.metadata.original_data_count = Some(Len(data[1])),
                       !.metadata.sampled_data_count = Some(Len(sampled))] :
                      sampled \in auto_sample_candidates(
                                      data[1], max_full_capture, sample_size)}
             ELSE {[counted EXCEPT !.candidates_data = data]}
        ELSE {[counted EXCEPT !.candidates_data = data]}

\* A call of step.set_candidates from application code, under some
\* configured threshold.
SetCandidatesCall(candidates_in, candidates_out, data, auto_sample, max_full_capture, sample_size) ==
    /\ step_model' \in set_candidates(step_model, candidates_in,
                                      candidates_out, data, auto_sample,
                                      max_full_capture, sample_size)
    /\ call' = [fn |-> "set_candidates", candidates_in |-> candidates_in,
                candidates_out |-> candidates_out, data |-> data,
                auto_sample |-> auto_sample,
                max_full_capture |-> max_full_capture]
    /\ UNCHANGED <<tracing_vars, config_vars, step_call>>

\* SpecCandidates: set_candidates called again and again on one step.
NextCandidates ==
    \E i \in CountValues, o \in CountValues, data \in DataLists,
       auto_sample \in BOOLEAN, t \in 1..MaxSample, s \in 1..MaxSample :
        SetCandidatesCall(i, o, data, auto_sample, t, s)

InitCandidates == Init /\ config = DefaultConfig

SpecCandidates == InitCandidates /\ [][NextCandidates]_vars


\* --------------------------------------------------------------- models
\* a / b as Python's true division gives it: the exact quotient, kept as
\* the pair it was computed from
Div(a, b) == [num |-> a, den |-> b]

\* mutant of reduction_rate: candidates_out tested for truth, not for None
reduction_rateOutTruthy(step) ==
    IF step.candidates_in # None /\ step.candidates_in[1] # 0
       /\ step.candidates_out # None /\ step.candidates_out[1] # 0
    THEN Some(Div(step.candidates_in[1] - step.candidates_out[1],
                  step.candidates_in[1]))
    ELSE None

\* step.reduction_rate: None, or the rate.  -- models.py 183-189
reduction_rate(step) ==
    IF (step.candidates_in # None /\ step.candidates_in[1] # 0)
       /\ step.candidates_out # None
    THEN IF step.candidates_in[1] = 0
         THEN None
         ELSE LET eliminated ==
                      step.candidates_in[1] - step.candidates_out[1]
              IN  Some(Div(eliminated, step.candidates_in[1]))
    ELSE None

\* Names given to a constructor: the keyword left out, empty, or a name.
NameArgs == {None, Some(""), Some("name")}

\* Sequence numbers given to StepModel: the keyword left out, or an int.
SequenceArgs == {None} \cup {Some(n) : n \in -1..MaxSteps}

\* Counts given to StepModel: the keyword left out, or an int.
CountArgs == {None} \cup {Some(n) : n \in CountValues}

\* Pydantic's check of a required `str = Field(...)` field: the value must
\* be given; no length constraint is declared.  -- models.py 100, 268
ValidName(name) == name # None

\* StepModel(step_name=..., step_type=..., sequence=..., candidates_in=...,
\* candidates_out=...): sequence defaults to 0 and has no constraint.
\* -- models.py 96-114
ConstructStepModel(step_name, sequence, candidates_in, candidates_out) ==
    /\ call = NoCall
    /\ IF ValidName(step_name)
       THEN /\ step_model' =
                  [StepModel_init(step_name[1],
                                  IF sequence = None THEN 0 ELSE sequence[1])
                       EXCEPT !.candidates_in = candidates_in,
                              !.candidates_out = candidates_out]
            /\ call' = [fn |-> "StepModel", step_name |-> step_name,
                        sequence |-> sequence, raised |-> NoExc]
       ELSE /\ step_model' = step_model
            /\ call' = [fn |-> "StepModel", step_name |-> step_name,
                        sequence |-> sequence, raised |-> ValidationError]
    /\ UNCHANGED <<tracing_vars, config_vars, step_call>>

\* RunModel(pipeline_name=...)  -- models.py 265-270
ConstructRunModel(pipeline_name) ==
    /\ call = NoCall
    /\ call' = [fn |-> "RunModel", pipeline_name |-> pipeline_name,
                raised |-> IF ValidName(pipeline_name)
                           THEN NoExc ELSE ValidationError]
    /\ UNCHANGED <<tracing_vars, step_model, config_vars, step_call>>

\* Application code reads step.reduction_rate of the step it built.
ReductionRateCall ==
    /\ call.fn = "StepModel" /\ call.raised = NoExc
    /\ call' = [fn |-> "reduction_rate", result |-> reduction_rate(step_model)]
    /\ UNCHANGED <<tracing_vars, step_model, config_vars, step_call>>

\* SpecModels: a model is constructed and its reduction rate read.
NextModels ==
    \/ \E name \in NameArgs, sequence \in SequenceArgs,
          i \in CountArgs, o \in CountArgs :
          ConstructStepModel(name, sequence, i, o)
    \/ \E name \in NameArgs : ConstructRunModel(name)
    \/ ReductionRateCall

InitModels == Init /\ config = DefaultConfig

SpecModels == InitModels /\ [][NextModels]_vars


\* ---------------------------------------------------------- config module
\* The urls the environment and configure() supply: up to MaxUrlLen
\* characters, each "/" or another character.
Urls == UNION {[1..n -> {"h", "/"}] : n \in 0..MaxUrlLen}

\* Optional url arguments: the keyword left out, or a url.
UrlArgs == {None} \cup {Some(u) : u \in Urls}

\* v.rstrip("/")
RECURSIVE Rstrip(_, _)
Rstrip(v, ch) ==
    IF v # <<>> /\ Last(v) = ch THEN Rstrip(Front(v), ch) ELSE v

\* XRayConfig.validate_api_url  -- config.py 126-130
validate_api_url(v) == Rstrip(v, "/")

\* XRayConfig(**kwargs): a field validator runs on a value that is passed
\* in, not on the field's default (no validate_default).  -- config.py 67-70
NewXRayConfig(default, api_url) ==
    [exists |-> TRUE,
     api_url |-> IF api_url = None THEN default
                 ELSE validate_api_url(api_url[1])]

\* os.environ["XRAY_API_URL"] = v, or del os.environ["XRAY_API_URL"]
\* -- test_config_manual.py 68-100
SetEnviron(v) ==
    /\ environ' = v
    /\ call' = [fn |-> "environ"]
    /\ UNCHANGED <<tracing_vars, step_model, api_url_default, _config, step_call>>

\* get_config()  -- config.py 154-170
GetConfig ==
    /\ _config' = IF ~_config.exists
                  THEN NewXRayConfig(api_url_default, None)
                  ELSE _config
    /\ call' = [fn |-> "get_config"]
    /\ UNCHANGED <<tracing_vars, step_model, environ, api_url_default, step_call>>

\* configure(api_url=...) or configure() with other options: a new
\* XRayConfig when none exists, else setattr on the existing one (no
\* validate_assignment).  -- config.py 212-225
Configure(api_url) ==
    /\ _config' = IF ~_config.exists
                  THEN NewXRayConfig(api_url_default, api_url)
                  ELSE IF api_url = None THEN _config
                  ELSE [_config EXCEPT !.api_url = api_url[1]]
    /\ call' = [fn |-> "configure"]
    /\ UNCHANGED <<tracing_vars, step_model, environ, api_url_default, step_call>>

\* reset_config()  -- config.py 228-240
ResetConfig ==
    /\ _config' = NoConfig
    /\ call' = [fn |-> "reset_config"]
    /\ UNCHANGED <<tracing_vars, step_model, environ, api_url_default, step_call>>

\* SpecConfig: the configuration module, imported under any environment,
\* then used while the environment changes.
NextConfig ==
    \/ \E v \in UrlArgs : SetEnviron(v)
    \/ GetConfig
    \/ \E api_url \in UrlArgs : Configure(api_url)
    \/ ResetConfig

\* config.py 67-70: the class body reads the environment at import.
InitConfig ==
    /\ config = DefaultConfig
    /\ InitTracing
    /\ InitLibrary
    /\ environ \in UrlArgs
    /\ api_url_default = Getenv(environ, DefaultUrl)
    /\ _config = NoConfig

SpecConfig == InitConfig /\ [][NextConfig]_vars


\* ------------------------------------------------------------ properties
\* The innermost scope of a kind that flow f has open, NoScope if none.
Innermost(f, kind) ==
    LET idx == {i \in 1..Len(stack[f]) : stack[f][i].kind = kind}
    IN  IF idx = {} THEN NoScope
        ELSE stack[f][CHOOSE i \in idx : \A j \in idx : j <= i].id

\* Flow f takes the step that exits its innermost scope, of the given kind.
Exits(f, kind) == TopIs(f, kind) /\ stack'[f] = Front(stack[f])

\* C1: in every run's step list the sequence values are 0, 1, ..., n-1 in
\* list order, with no duplicates and no gaps.
C1_SequencesAreIndices ==
    \A r \in 1..Len(runs) :
        \A i \in 1..Len(runs[r].steps) : steps[runs[r].steps[i]].sequence = i - 1

\* C2: at every moment every run's step list (which is in scope-exit order)
\* is sorted by sequence.
C2_StepListSorted ==
    \A r \in 1..Len(runs) : IsSorted(Sequences(runs[r].steps))

\* C3: in a flow the current run is always the innermost run scope the flow
\* has open, and no run when it has none open (so exiting nested run B makes
\* A current again, and exiting A leaves no current run); the same for the
\* current step and the step scopes.
C3_CurrentIsInnermost ==
    \A f \in Flows :
        /\ get_current_run(f) = Innermost(f, "run")
        /\ get_current_step(f) = Innermost(f, "step")

\* C4: every exit of a run scope leaves as the flow's current run the run
\* that was current immediately before the scope was entered.
C4_ExitRestoresSavedRun ==
    [][\A f \in Flows :
          Exits(f, "run") => get_current_run(f)' = Last(stack[f]).saved]_vars

\* C5: an exception escaping the body of a run scope is the exception that
\* propagates above the run scope after its exit.
C5_EscapingExceptionKept ==
    [][\A f \in Flows :
          (Exits(f, "run") /\ exc[f] # NoExc) => exc'[f] = exc[f]]_vars

\* C6: a step exit with an exception escaping records the exception's type
\* name and message in the metadata, sets end_time, appends the step to the
\* owning run, restores the previous current step and lets the exception
\* propagate.
C6_StepExitOnException ==
    [][\A f \in Flows :
          (Exits(f, "step") /\ exc[f] # NoExc) =>
              LET s == Last(stack[f]).id
                  r == steps[s].run_context
              IN  /\ steps'[s].exception =
                        [type |-> exc[f].type, message |-> exc[f].message]
                  /\ steps'[s].end_time = "utcnow"
                  /\ runs'[r].steps = Append(runs[r].steps, s)
                  /\ get_current_step(f)' = Last(stack[f]).saved
                  /\ exc'[f] = exc[f]]_vars

\* C6 witness: inside an outer step, an inner step has exited with the
\* exception recorded, and the exception is still propagating.
C6_Witness ==
    \E f \in Flows, s \in 1..Len(steps) :
        /\ steps[s].phase = "exited"
        /\ steps[s].exception.type = "ValueError"
        /\ exc[f].type = "ValueError"
        /\ TopIs(f, "step")
        /\ get_current_step(f) = Last(stack[f]).id
        /\ \E i \in 1..Len(runs[steps[s].run_context].steps) :
              runs[steps[s].run_context].steps[i] = s

\* C7: a run-scope exit sets the status to SUCCESS when no exception is
\* escaping and to FAILURE when one is (never PARTIAL, never RUNNING), and
\* sets end_time.
C7_ExitSetsStatus ==
    [][\A f \in Flows :
          Exits(f, "run") =>
              LET r == Last(stack[f]).id
              IN  /\ runs'[r].status =
                        (IF exc[f] = NoExc THEN "success" ELSE "failure")
                  /\ runs'[r].end_time = "utcnow"]_vars

\* C7 witness: one run has exited with an exception escaping (FAILURE) and
\* another without (SUCCESS).
C7_Witness ==
    \E r1, r2 \in 1..Len(runs) :
        /\ runs[r1].phase = "exited" /\ runs[r1].status = "failure"
        /\ runs[r2].phase = "exited" /\ runs[r2].status = "success"

\* C8: once a run's status is terminal no operation changes it again.
C8_TerminalStatusFinal ==
    [][\A r \in 1..Len(runs) :
          runs[r].status # "running" => runs'[r].status = runs[r].status]_vars

\* C9: a flow's current run and current step were entered by that flow, and
\* a flow's current run and current step change only when that flow itself
\* enters or exits a scope.
C9_FlowsIsolated ==
    /\ [](\A f \in Flows :
            /\ get_current_run(f) # NoScope =>
                  runs[get_current_run(f)].entered_by = f
            /\ get_current_step(f) # NoScope =>
                  steps[get_current_step(f)].entered_by = f)
    /\ [][\A g \in Flows :
             stack'[g] = stack[g] =>
                 /\ get_current_run(g)' = get_current_run(g)
                 /\ get_current_step(g)' = get_current_step(g)]_vars

\* C9 witness: both flows hold their own active run and step at once.
C9_Witness ==
    /\ get_current_run("main") # NoScope
    /\ get_current_run("helper") # NoScope
    /\ get_current_run("main") # get_current_run("helper")
    /\ get_current_step("main") # NoScope
    /\ get_current_step("helper") # NoScope
    /\ get_current_step("main") # get_current_step("helper")

\* C10: with tracing disabled a send returns True, raises nothing, makes no
\* transport attempt, does not call the failure handler and writes no file.
C10_DisabledSendIsNoop ==
    /\ (last_send.by # "none" /\ ~last_send.enabled) =>
          /\ last_send.ret = TRUE
          /\ last_send.raised = NoExc
          /\ last_send.attempts = 0
          /\ last_send.handled = 0
          /\ last_send.wrote = FALSE
    /\ ~config.enabled => files = {}

\* C10 witness: a send was made with tracing disabled, in RAISE mode, against
\* a store that would have timed out.
C10_Witness ==
    /\ last_send.by = "call"
    /\ ~last_send.enabled
    /\ last_send.mode = "raise"
    /\ last_send.outcome = "timeout"

\* C11: with tracing disabled, a run-scope exit with auto_send adds no
\* exception of its own: what propagates after the exit is what propagated
\* before it, whatever steps ran inside the run.
C11_DisabledExitAddsNoException ==
    [][\A f \in Flows :
          (/\ Exits(f, "run")
           /\ ~config.enabled
           /\ runs[Last(stack[f]).id].auto_send) => exc'[f] = exc[f]]_vars

\* The exceptions a delivery problem shows up as: the transport's, the
\* serializer's, the synthesized one, and the fallback writer's.
DeliveryExceptions ==
    {TimeoutException, ConnectError, DumpError, RuntimeError, WriteError}

\* C12: in SILENT and LOG modes no send raises, and no exception of a
\* delivery problem (timeout, connection failure, non-success status,
\* serialization error, fallback-write error) propagates in any flow.
C12_SilentLogContainDelivery ==
    config.fallback_mode \in {"silent", "log"} =>
        /\ last_send.raised = NoExc
        /\ \A f \in Flows : exc[f] \notin DeliveryExceptions

\* C12 witness: a run scope has exited in LOG mode, its delivery timed out and
\* the fallback write failed too, and nothing propagates in the flow.
C12_Witness ==
    /\ last_send.by = "exit"
    /\ last_send.mode = "log"
    /\ last_send.outcome = "timeout"
    /\ ~last_send.ret
    /\ \E r \in 1..Len(runs) : runs[r].phase = "exited"
    /\ \A f \in Flows : exc[f] = NoExc /\ stack[f] = <<>>

\* C13: with tracing enabled, a send reports success without calling the
\* fallback policy exactly when the store answered 200 or 201; any other
\* status, a connection failure and a timeout all go to the fallback policy.
C13_SuccessIs200Or201 ==
    (last_send.by # "none" /\ last_send.enabled) =>
        /\ (last_send.outcome \in {"200", "201"}) <=>
              (last_send.ret /\ last_send.raised = NoExc /\ last_send.handled = 0)
        /\ last_send.outcome \in {"204", "500", "timeout", "connect"} =>
              last_send.handled >= 1

\* C13 witness: an enabled send was answered 204 and went to the fallback
\* policy, which reported failure.
C13_Witness ==
    /\ last_send.by = "call"
    /\ last_send.enabled
    /\ last_send.outcome = "204"
    /\ last_send.handled = 1
    /\ ~last_send.ret

\* C14: in LOG mode a failed delivery never raises; send returns True only
\* if the file trace_<timestamp>_<run id> now holds the serialized bundle,
\* returns False only if this send did not put it there, and returns False
\* (leaving the directory as it was) when the directory cannot be made or
\* the file cannot be written.
C14_LogReturnIsWriteResult ==
    [][\A p \in ClientPayloads, o \in TransportOutcomes, w \in BOOLEAN :
          (/\ SendCall(p, o, w)
           /\ config.enabled /\ config.fallback_mode = "log"
           /\ o \notin {"200", "201"}) =>
              LET file == [name    |-> FileName(now, p),
                           content |-> JsonFile(ModelDump(p))]
              IN  /\ last_send'.raised = NoExc
                  /\ last_send'.ret => file \in files'
                  /\ ~last_send'.ret => file \notin (files' \ files)
                  /\ ~w => (~last_send'.ret /\ files' = files)]_vars

\* C14 witness: one failed delivery was written to a file and a later one,
\* to an unreachable store, could not be written and returned False.
C14_Witness ==
    /\ last_send.by = "call"
    /\ last_send.mode = "log"
    /\ last_send.outcome = "connect"
    /\ ~last_send.ret
    /\ last_send.raised = NoExc
    /\ \E x \in files : x.content # EmptyFile

\* The files of the log directory whose name carries run id r
\* (log_dir.glob(f"trace_*_{run.id}.json")).
FilesOf(fs, r) == {x \in fs : x.name.run = r}

C16_EveryFailedSendOwnFile ==
    [][\A x \in files' :
          x \notin files => x.name \notin {y.name : y \in files}]_vars

\* C17: in RAISE mode a failed send returns no value: it raises the
\* transport's (or the serializer's) own exception when there is one, and the
\* synthesized RuntimeError when the failure is a non-success status.
C17_RaiseModeRaisesCause ==
    (/\ last_send.by # "none"
     /\ last_send.enabled
     /\ last_send.mode = "raise"
     /\ last_send.outcome \notin {"200", "201"}) =>
        last_send.raised =
            CASE last_send.outcome = "timeout"    -> TimeoutException
              [] last_send.outcome = "connect"    -> ConnectError
              [] last_send.outcome = "dump_error" -> DumpError
              [] OTHER                            -> RuntimeError

\* C17 witness: a blocking send in RAISE mode timed out and raised the
\* timeout exception.
C17_Witness ==
    /\ last_send.by = "call"
    /\ last_send.enabled
    /\ last_send.mode = "raise"
    /\ last_send.outcome = "timeout"
    /\ last_send.raised = TimeoutException

\* C18: handing a bundle to a background thread makes no transport attempt
\* and writes no file in the calling flow; what the thread's send returns or
\* raises reaches no flow; and in async mode send_trace gives its caller True
\* and never runs the send itself.
C18_AsyncNeverReachesCaller ==
    /\ [](/\ config.async_mode => returned \in {"none", "True"}
          /\ config.async_mode => last_send.by # "send_trace"
          /\ last_send.by = "thread" => \A f \in Flows : exc[f] = NoExc)
    /\ [][/\ (\E p \in bg' : p \notin bg) =>
                (last_send' = last_send /\ files' = files /\ exc' = exc)
          /\ (\E p \in bg : p \notin bg') =>
                (exc' = exc /\ returned' = returned)]_vars

\* C18 witness: in async mode send_trace gave True, the background thread's
\* send then raised, and nothing propagates in any flow.
C18_Witness ==
    /\ config.async_mode
    /\ returned = "True"
    /\ bg = {}
    /\ last_send.by = "thread"
    /\ last_send.raised # NoExc
    /\ \A f \in Flows : exc[f] = NoExc

\* C19: when background threads are scheduled fairly, every bundle handed to
\* a background thread is eventually taken by that thread, which runs one
\* send on it (at most one transport attempt) and is done with it.
C19_AsyncEventuallyProcessed ==
    /\ \A p \in ClientPayloads : (p \in bg) ~> (p \notin bg)
    /\ [][\A p \in bg :
             p \notin bg' =>
                 /\ last_send'.by = "thread"
                 /\ last_send'.attempts <= 1
                 /\ bg' = bg \ {p}]_vars

\* C19 witness: a bundle handed over by send_trace has been processed by its
\* thread, with one transport attempt, which failed.
C19_Witness ==
    /\ returned = "True"
    /\ bg = {}
    /\ last_send.by = "thread"
    /\ last_send.attempts = 1
    /\ last_send.outcome = "connect"

C21_ExitHandsOverOnce ==
    [][\A f \in Flows :
          Exits(f, "run") =>
              LET r == Last(stack[f]).id
              IN  IF runs[r].auto_send
                  THEN /\ Len(runs'[r].handed) = Len(runs[r].handed) + 1
                       /\ Last(runs'[r].handed).status \in {"success", "failure"}
                       /\ Last(runs'[r].handed).status = runs'[r].status
                       /\ Last(runs'[r].handed).end_time = "utcnow"
                       /\ Last(runs'[r].handed).steps = runs[r].steps
                  ELSE runs'[r].handed = runs[r].handed]_vars

\* The sequence numbers of the steps of a dumped bundle, in list order.
DumpedSequences(doc) == [i \in 1..Len(doc.steps) |-> doc.steps[i].sequence]

\* C28: no bundle exists with its steps out of sequence order: every bundle
\* handed to send_trace, every bundle waiting for a background thread and
\* every bundle in a fallback file has its steps in non-decreasing sequence
\* order.
C28_NoOutOfOrderBundle ==
    /\ \A r \in 1..Len(runs) :
          \A i \in 1..Len(runs[r].handed) :
              IsSorted(Sequences(runs[r].handed[i].steps))
    /\ \A p \in bg : IsSorted(p.steps)
    /\ \A x \in files :
          x.content # EmptyFile => IsSorted(DumpedSequences(JsonLoad(x.content)))

\* C28 witness: a run with auto_send exited with its steps out of sequence
\* order: building the bundle raised the validation error and nothing was
\* handed over, queued or written.
C28_Witness ==
    \E r \in 1..Len(runs) :
        /\ runs[r].phase = "exited"
        /\ runs[r].auto_send
        /\ ~IsSorted(Sequences(runs[r].steps))
        /\ runs[r].handed = <<>>
        /\ exc["main"] = ValidationError
        /\ bg = {} /\ files = {}


\* C22: the smart sampler returns the input unchanged when N <= T, and
\* otherwise a list of between min(S, N) and 3S items, never more than N.
C22_SmartSampleSize ==
    call.fn = "sample_candidates" =>
        LET N == Len(call.candidates)
            T == call.max_full_capture
            S == call.sample_size
        IN  /\ N <= T => call.result = call.candidates
            /\ N > T => /\ Min(S, N) <= Len(call.result)
                        /\ Len(call.result) <= 3 * S
                        /\ Len(call.result) <= N

\* The items of a list whose grouping field has the value v, in list order.
Group(list, v) == SelectSeq(list, LAMBDA c : c.category = v)

RECURSIVE SumOfCaps(_, _, _)
SumOfCaps(list, values, K) ==
    IF values = {} THEN 0
    ELSE LET v == CHOOSE v \in values : TRUE
         IN  Min(Len(Group(list, v)), K) + SumOfCaps(list, values \ {v}, K)

\* C23: stratified sampling takes exactly min(g_i, K) items of each group,
\* each of them an item of that group taken once, and nothing else: the
\* output has the sum of min(g_i, K) items.
C23_StratifiedContribution ==
    call.fn = "sample_candidates_stratified" =>
        LET K == call.samples_per_stratum
        IN  /\ \A v \in Categories :
                  LET g == Group(call.candidates, v)
                      o == Group(call.result, v)
                  IN  /\ Len(o) = Min(Len(g), K)
                      /\ \A i \in 1..Len(o) : \E j \in 1..Len(g) : o[i] = g[j]
                      /\ \A i, j \in 1..Len(o) : o[i] = o[j] => i = j
            /\ Len(call.result) = SumOfCaps(call.candidates, Categories, K)

\* A stratified call in which one group is larger than the cap, another is
\* not, and a candidate without the grouping field is present.
C23_Witness ==
    /\ call.fn = "sample_candidates_stratified"
    /\ call.samples_per_stratum = 1
    /\ Len(Group(call.candidates, "a")) > 1
    /\ Len(Group(call.candidates, "b")) = 1
    /\ Len(Group(call.candidates, NoKey)) = 1
    /\ Len(call.result) = 2

\* C24: head+tail sampling returns the input unchanged when H + T >= N, and
\* otherwise exactly the first H items followed by the last T items: H + T
\* items, none of them repeated.
C24_HeadTailExact ==
    call.fn = "sample_candidates_head_tail" =>
        LET N == Len(call.candidates)
            H == call.head_size
            T == call.tail_size
        IN  /\ H + T >= N => call.result = call.candidates
            /\ H + T < N =>
                  /\ Len(call.result) = H + T
                  /\ \A i \in 1..H : call.result[i] = call.candidates[i]
                  /\ \A i \in 1..T :
                        call.result[H + i] = call.candidates[N - T + i]
                  /\ \A i, j \in 1..Len(call.result) :
                        call.result[i] = call.result[j] => i = j

\* C25: when set_candidates applies sampling (auto_sample and data longer
\* than the threshold) the step's metadata has sampling_applied = true,
\* original_data_count = the length of the data passed in and
\* sampled_data_count = the length of the stored candidates_data; data at or
\* below the threshold is stored as passed in.
C25_SamplingMetadataRecorded ==
    call.fn = "set_candidates" =>
        LET data == call.data
            T    == call.max_full_capture
        IN  /\ (call.auto_sample /\ data # None /\ Len(data[1]) > T) =>
                  /\ step_model.metadata.sampling_applied = Some(TRUE)
                  /\ step_model.metadata.original_data_count
                        = Some(Len(data[1]))
                  /\ step_model.candidates_data # None
                  /\ step_model.metadata.sampled_data_count
                        = Some(Len(step_model.candidates_data[1]))
            /\ (data # None /\ Len(data[1]) <= T) =>
                  step_model.candidates_data = data

\* A set_candidates call that sampled: less data is stored than was passed.
C25_Witness ==
    /\ call.fn = "set_candidates"
    /\ call.auto_sample /\ call.data # None
    /\ Len(call.data[1]) > call.max_full_capture
    /\ step_model.candidates_data # None
    /\ Len(step_model.candidates_data[1]) < Len(call.data[1])
    /\ step_model.metadata.sampled_data_count
          = Some(Len(step_model.candidates_data[1]))

\* C26: reduction_rate is None (not a number, so not a computed 0) when
\* candidates_in is 0 or a count is absent; when candidates_in > 0 and
\* candidates_out is set it is exactly (candidates_in - candidates_out) /
\* candidates_in; the divisor is never 0.
C26_ReductionRateDefined ==
    call.fn = "reduction_rate" =>
        LET I == step_model.candidates_in
            O == step_model.candidates_out
            rate == call.result
        IN  /\ (I = None \/ O = None \/ I = Some(0)) => rate = None
            /\ (I # None /\ O # None /\ I[1] > 0) =>
                  /\ rate # None
                  /\ rate[1].den # 0
                  /\ rate[1].num * I[1] = (I[1] - O[1]) * rate[1].den
            /\ rate # None => rate[1].den # 0

\* The rate of a step that kept none of its candidates out: a computed
\* rate of exactly 1, candidates_out being 0.
C26_Witness ==
    /\ call.fn = "reduction_rate"
    /\ step_model.candidates_in = Some(MaxCandidates)
    /\ step_model.candidates_out = Some(0)
    /\ call.result = Some(Div(MaxCandidates, MaxCandidates))

\* C27: constructing a Run with an empty pipeline_name, a Step with an empty
\* step_name or a Step with a negative sequence raises a validation error,
\* so no step with an empty name or a negative sequence exists.
C27_MalformedRejected ==
    /\ (call.fn = "RunModel" /\ call.pipeline_name = Some("")) =>
          call.raised = ValidationError
    /\ (call.fn = "StepModel"
          /\ (\/ call.step_name = Some("")
              \/ (call.sequence # None /\ call.sequence[1] < 0))) =>
          call.raised = ValidationError
    /\ step_model.step_name # ""
    /\ step_model.sequence >= 0

EndsWithSlash(url) == url # <<>> /\ Last(url) = "/"

\* C29: whatever get_config, configure and reset_config calls were made, the
\* api_url of the configuration does not end with a slash.
C29_ApiUrlNoTrailingSlash ==
    _config.exists => ~EndsWithSlash(_config.api_url)

\* C30: the configuration get_config creates right after reset_config has
\* the api_url the environment gives at that moment (XRAY_API_URL, or the
\* built-in default when unset), as it is or with its trailing slashes
\* stripped.
C30_ResetRereadsEnvironment ==
    [][(call.fn = "reset_config" /\ call'.fn = "get_config") =>
          LET url == Getenv(environ, DefaultUrl)
          IN  _config'.api_url \in {url, validate_api_url(url)}]_vars

\* C31: whenever a step's reduction_rate is defined it lies between 0 and 1
\* inclusive, whatever candidate counts the step was given.
C31_ReductionRateInUnitInterval ==
    (call.fn = "reduction_rate" /\ call.result # None) =>
        LET rate == call.result[1]
        IN  IF rate.den > 0
            THEN 0 <= rate.num /\ rate.num <= rate.den
            ELSE rate.den < 0 /\ 0 >= rate.num /\ rate.num >= rate.den

\* C38: after any sequence of set_candidates calls on one step, the sampling
\* metadata describes the latest call: sampling_applied is true only if the
\* stored candidates_data came from sampling in that call, and the two counts
\* are those of that call's data.
C38_SamplingMetadataCurrent ==
    call.fn = "set_candidates" =>
        LET sampled == /\ call.auto_sample /\ call.data # None
                       /\ Len(call.data[1]) > call.max_full_capture
        IN  /\ step_model.metadata.sampling_applied = Some(TRUE) => sampled
            /\ step_model.metadata.original_data_count # None =>
                  /\ call.data # None
                  /\ step_model.metadata.original_data_count
                        = Some(Len(call.data[1]))
            /\ step_model.metadata.sampled_data_count # None =>
                  /\ step_model.candidates_data # None
                  /\ step_model.metadata.sampled_data_count
                        = Some(Len(step_model.candidates_data[1]))

\* The positions of the input that the output of a sampler call holds, in
\* output order (a candidate's id is its input position).
Positions(list) == [i \in 1..Len(list) |-> list[i].id]

\* C40: for N > T the smart sampler's output holds no input position twice.
C40_SmartSampleNoRepeat ==
    (call.fn = "sample_candidates"
        /\ Len(call.candidates) > call.max_full_capture) =>
        \A i, j \in 1..Len(call.result) :
            Positions(call.result)[i] = Positions(call.result)[j] => i = j

\* C35: a failed send (timeout, connection error or a response status that
\* is not a success) invokes the failure handler exactly once, in each of
\* the SILENT, LOG and RAISE modes.
C35_FailureHandledOnce ==
    (/\ last_send.by # "none"
     /\ last_send.enabled
     /\ last_send.outcome \in {"timeout", "connect"} \cup
            {o \in TransportOutcomes \ {"timeout", "connect", "dump_error"} :
                ~IsSuccessStatus(o)}) =>
        last_send.handled = 1

\* C32: once a run's scope has exited, no step is created for it or appended
\* to it: its step list and its sequence counter no longer change.
C32_ExitedRunFrozen ==
    [][\A r \in 1..Len(runs) :
          runs[r].phase = "exited" =>
              /\ runs'[r].steps = runs[r].steps
              /\ runs'[r]._sequence_counter = runs[r]._sequence_counter]_vars

\* C33: whenever a flow has a current run and a current step, the current
\* step is a step of the current run.
C33_CurrentStepOfCurrentRun ==
    \A f \in Flows :
        (get_current_run(f) # NoScope /\ get_current_step(f) # NoScope) =>
            steps[get_current_step(f)].run_context = get_current_run(f)

\* C34: a scope that has exited is not a flow's current scope:
\* get_current_run returns no run whose scope has exited and get_current_step
\* no step that was appended to its run.
C34_ExitedScopeNotCurrent ==
    \A f \in Flows :
        /\ get_current_run(f) # NoScope =>
              runs[get_current_run(f)].phase # "exited"
        /\ get_current_step(f) # NoScope =>
              steps[get_current_step(f)].phase # "exited"

\* C39: each step is at most once in its run's step list, and in the list of
\* one run only, also when the scope of one step handle is entered and
\* exited more than once.
C39_StepListedOnce ==
    /\ \A r \in 1..Len(runs) :
          \A i, j \in 1..Len(runs[r].steps) :
              runs[r].steps[i] = runs[r].steps[j] => i = j
    /\ \A q, r \in 1..Len(runs) :
          \A i \in 1..Len(runs[q].steps), j \in 1..Len(runs[r].steps) :
              runs[q].steps[i] = runs[r].steps[j] => q = r

\* C37: the sequence numbers run.step() hands out on one run are pairwise
\* distinct and the counter neither skips nor repeats a value: after k
\* completed calls it is k and the numbers handed out are 0..k-1, also when
\* several threads share the run handle.
C37_SequenceNumbersDistinct ==
    /\ \A i, j \in 1..Len(steps) :
          (steps[i].run_context = steps[j].run_context
              /\ steps[i].sequence = steps[j].sequence) => i = j
    /\ (\A f \in Flows : step_call[f] = Idle) =>
          \A r \in 1..Len(runs) :
              runs[r]._sequence_counter =
                  Cardinality({i \in 1..Len(steps) : steps[i].run_context = r})

\* C36: the bundle a background send writes to the fallback log shows the
\* run as it was when its scope exited: what the caller does to the run
\* after the exit (set_final_output) is not in it.
C36_AsyncBundleIsExitSnapshot ==
    \A x \in files :
        (/\ x.content # EmptyFile
         /\ x.name.run \in 1..Len(runs)
         /\ runs[x.name.run].handed # <<>>) =>
            JsonLoad(x.content).run.final_output
                = Last(runs[x.name.run].handed).final_output

====
